---- MODULE Spec2Model ----
(***************************************************************************)
(* Model of scrapy/core/downloader/tls.py (ScrapyClientTLSOptions) and of  *)
(* scrapy/core/downloader/handlers/file.py (FileDownloadHandler).          *)
(*                                                                         *)
(* Spec      : one ScrapyClientTLSOptions bound to one connection; the TLS *)
(*             engine invokes _identityVerifyingInfoCallback with any      *)
(*             event bitmask, in any order.                                *)
(* FileSpec  : one FileDownloadHandler over a small filesystem that the    *)
(*             environment may change between download_request calls.     *)
(***************************************************************************)
EXTENDS Integers, Sequences, FiniteSets, TLC

VARIABLES
    hostnameBytes,    \* self._hostnameBytes   (bytes, fixed by __init__)
    hostnameASCII,    \* self._hostnameASCII   (str, fixed by __init__)
    verbose_logging,  \* self.verbose_logging
    connection,       \* the SSL.Connection the engine hands to the callback
    log,              \* records received by the module logger, oldest first
    verifyCalls,      \* number of verifyHostname calls made so far
    sniSets,          \* number of successful set_tlsext_host_name calls
    doneSeen,         \* a handshake-done branch has been entered
    calls,            \* callback invocations so far
    last,             \* the latest callback invocation and how it ended
    fs,               \* filesystem: path -> file state
    fetches,          \* download_request calls so far
    reads,            \* Path.read_bytes calls so far
    lastFetch,        \* the latest download_request call and its Deferred
    prevFetch         \* the download_request call before it

tlsVars  == <<hostnameBytes, hostnameASCII, verbose_logging, connection, log,
              verifyCalls, sniSets, doneSeen, calls, last>>
fileVars == <<fs, fetches, reads, lastFetch, prevFetch>>
vars     == <<hostnameBytes, hostnameASCII, verbose_logging, connection, log,
              verifyCalls, sniSets, doneSeen, calls, last,
              fs, fetches, reads, lastFetch, prevFetch>>

(***************************************************************************)
(* Bounds                                                                  *)
(***************************************************************************)
MaxCalls   == 3      \* callback invocations per connection
MaxFetches == 3      \* download_request calls

(***************************************************************************)
(* Python values                                                           *)
(***************************************************************************)
None     == <<"None", "">>
Bytes(s) == <<"bytes", s>>
NoExc    == [cls |-> "", msg |-> ""]

\* exception classes and their direct base class
ExcBase == [c \in {"Exception", "CertificateError", "VerificationError",
                   "ValueError", "UnicodeError", "TypeError", "Error",
                   "OSError", "FileNotFoundError", "PermissionError",
                   "InvalidLocatorError"} |->
              CASE c = "UnicodeError"      -> "ValueError"
                [] c = "FileNotFoundError" -> "OSError"
                [] c = "PermissionError"   -> "OSError"
                [] OTHER                   -> "Exception"]

RECURSIVE IsInstance(_, _)
IsInstance(cls, base) ==
    IF cls = base THEN TRUE
    ELSE IF cls = "Exception" THEN FALSE
    ELSE IsInstance(ExcBase[cls], base)

Str(e)  == e.msg                                  \* "%s" % e
Repr(e) == e.cls \o "('" \o e.msg \o "')"         \* "%r" % e

(***************************************************************************)
(* Event bitmask                                                           *)
(***************************************************************************)
SSL_CB_HANDSHAKE_START == 16
SSL_CB_HANDSHAKE_DONE  == 32

\* where & flag, for a single-bit flag
BitAnd(where, flag) == IF (where \div flag) % 2 = 1 THEN flag ELSE 0

\* start, done, both flags, connect-loop (0x1001), done + read (0x24)
Wheres == {16, 32, 48, 4097, 36}

(***************************************************************************)
(* ClientTLSOptions.__init__: the two stored forms of the hostname         *)
(***************************************************************************)
Hostnames == {"example.com", "b[U+00FC]cher.example", "192.0.2.1"}

\* IDNA-encode a DNS name, ASCII-encode an IP address literal
idnaBytes(hostname) ==
    CASE hostname = "b[U+00FC]cher.example" -> Bytes("xn--bcher-kva.example")
      [] OTHER                              -> Bytes(hostname)

decodeASCII(b) == b[2]

(***************************************************************************)
(* The connection as the callback sees it                                  *)
(***************************************************************************)
Protocols  == {<<"TLSv1.3", "TLS_AES_256_GCM_SHA384">>,
               <<"TLSv1.2", "ECDHE-RSA-AES128-GCM-SHA256">>}
Certs      == {None, <<"cert", "C=US, O=Example CA", "CN=example.com">>}
KeyInfos   == {None, <<"str", "ECDH, P-256, 256 bits">>}
VerifyExcs == {NoExc,
               [cls |-> "VerificationError", msg |-> "no ID matched"],
               [cls |-> "CertificateError",  msg |-> "no subjectAltName"],
               [cls |-> "ValueError",        msg |-> "bad hostname"],
               [cls |-> "UnicodeError",      msg |-> "label too long"],
               [cls |-> "TypeError",         msg |-> "expected str"],
               [cls |-> "Error",             msg |-> "no peer certificate"]}
\* which of the calls that fetch the data of a debug record raises, if any:
\* get_protocol_version_name / get_cipher_name (first record),
\* get_peer_certificate / x509name_to_string (second), get_temp_key_info (third)
Accessors  == {"none", "get_protocol_version_name", "get_peer_certificate",
               "get_temp_key_info"}
AccessorExc == [cls |-> "Error", msg |-> "accessor failed"]
SniExc      == [cls |-> "Error", msg |-> "set_tlsext_host_name failed"]

Connections ==
    [sni        : {None},       \* server name the engine has accepted
     sniArg     : {None},       \* last name passed to set_tlsext_host_name
     sniOk      : BOOLEAN,      \* the engine accepts a server name
     protocol   : Protocols,
     peer_cert  : Certs,
     key_info   : KeyInfos,
     verifyExc  : VerifyExcs,
     failing    : Accessors]

(***************************************************************************)
(* Log records                                                             *)
(***************************************************************************)
Rec(level, msg, args) == [level |-> level, msg |-> msg, args |-> args]

MsgParams  == "SSL connection to %s using protocol %s, cipher %s"
MsgCert    == "SSL connection certificate: issuer \"%s\", subject \"%s\""
MsgTempKey == "SSL temp key: %s"
MsgInvalid == "Remote certificate is not valid for hostname \"%s\"; %s"
MsgIgnored == "Ignoring error while verifying certificate from host \"%s\" (exception: %r)"

\* verboseLogging with the temp-key record nested under "if server_cert"
verboseLogging_nested(conn, host, verbose) ==
    IF ~verbose THEN [recs |-> <<>>, exc |-> NoExc]
    ELSE IF conn.failing = "get_protocol_version_name"
    THEN [recs |-> <<>>, exc |-> AccessorExc]
    ELSE
      LET r1 == <<Rec("DEBUG", MsgParams,
                      <<host, conn.protocol[1], conn.protocol[2]>>)>>
      IN IF conn.failing = "get_peer_certificate"
         THEN [recs |-> r1, exc |-> AccessorExc]
         ELSE IF conn.peer_cert = None THEN [recs |-> r1, exc |-> NoExc]
         ELSE
           LET r2 == r1 \o <<Rec("DEBUG", MsgCert,
                                 <<conn.peer_cert[2], conn.peer_cert[3]>>)>>
           IN IF conn.failing = "get_temp_key_info"
              THEN [recs |-> r2, exc |-> AccessorExc]
              ELSE [recs |-> IF conn.key_info # None
                             THEN r2 \o <<Rec("DEBUG", MsgTempKey,
                                              <<conn.key_info[2]>>)>>
                             ELSE r2,
                    exc  |-> NoExc]

(***************************************************************************)
(* _identityVerifyingInfoCallback, handshake-done branch, first half:      *)
(* the debug records of verbose logging.  Returns the records emitted and  *)
(* the exception an accessor raised (NoExc when none did).  The arguments  *)
(* of a logger.debug call are evaluated before the record is emitted.      *)
(***************************************************************************)
verboseLogging(conn, host, verbose) ==
    IF ~verbose THEN [recs |-> <<>>, exc |-> NoExc]
    ELSE IF conn.failing = "get_protocol_version_name"
    THEN [recs |-> <<>>, exc |-> AccessorExc]
    ELSE
      LET r1 == <<Rec("DEBUG", MsgParams,
                      <<host, conn.protocol[1], conn.protocol[2]>>)>>
      IN IF conn.failing = "get_peer_certificate"
         THEN [recs |-> r1, exc |-> AccessorExc]
         ELSE
           LET server_cert == conn.peer_cert
               r2 == IF server_cert # None
                     THEN r1 \o <<Rec("DEBUG", MsgCert,
                                      <<server_cert[2], server_cert[3]>>)>>
                     ELSE r1
           IN IF conn.failing = "get_temp_key_info"
              THEN [recs |-> r2, exc |-> AccessorExc]
              ELSE
                LET key_info == conn.key_info
                IN [recs |-> IF key_info # None
                             THEN r2 \o <<Rec("DEBUG", MsgTempKey,
                                              <<key_info[2]>>)>>
                             ELSE r2,
                    exc  |-> NoExc]

\* verifyAndRelax as Twisted's own callback has it: CertificateError not caught
verifyAndRelax_noCertificateError(conn, host) ==
    LET e == conn.verifyExc
    IN IF e = NoExc THEN [recs |-> <<>>, exc |-> NoExc]
       ELSE IF IsInstance(e.cls, "VerificationError")
       THEN [recs |-> <<Rec("WARNING", MsgInvalid, <<host, Str(e)>>)>>,
             exc  |-> NoExc]
       ELSE IF IsInstance(e.cls, "ValueError")
       THEN [recs |-> <<Rec("WARNING", MsgIgnored, <<host, Repr(e)>>)>>,
             exc  |-> NoExc]
       ELSE [recs |-> <<>>, exc |-> e]

\* verifyAndRelax with the two except clauses collapsed into the first
verifyAndRelax_oneTier(conn, host) ==
    LET e == conn.verifyExc
    IN IF e = NoExc THEN [recs |-> <<>>, exc |-> NoExc]
       ELSE IF IsInstance(e.cls, "CertificateError")
               \/ IsInstance(e.cls, "VerificationError")
               \/ IsInstance(e.cls, "ValueError")
       THEN [recs |-> <<Rec("WARNING", MsgInvalid, <<host, Str(e)>>)>>,
             exc  |-> NoExc]
       ELSE [recs |-> <<>>, exc |-> e]

\* verifyAndRelax with "except Exception" in place of "except ValueError"
verifyAndRelax_catchAll(conn, host) ==
    LET e == conn.verifyExc
    IN IF e = NoExc THEN [recs |-> <<>>, exc |-> NoExc]
       ELSE IF IsInstance(e.cls, "CertificateError")
               \/ IsInstance(e.cls, "VerificationError")
       THEN [recs |-> <<Rec("WARNING", MsgInvalid, <<host, Str(e)>>)>>,
             exc  |-> NoExc]
       ELSE [recs |-> <<Rec("WARNING", MsgIgnored, <<host, Repr(e)>>)>>,
             exc  |-> NoExc]

(***************************************************************************)
(* Handshake-done branch, second half: try verifyHostname, except          *)
(* (CertificateError, VerificationError), except ValueError.  Returns the  *)
(* records emitted and the exception that escapes (NoExc when none).       *)
(***************************************************************************)
verifyAndRelax(conn, host) ==
    LET e == conn.verifyExc
    IN IF e = NoExc THEN [recs |-> <<>>, exc |-> NoExc]
       ELSE IF IsInstance(e.cls, "CertificateError")
               \/ IsInstance(e.cls, "VerificationError")
       THEN [recs |-> <<Rec("WARNING", MsgInvalid, <<host, Str(e)>>)>>,
             exc  |-> NoExc]
       ELSE IF IsInstance(e.cls, "ValueError")
       THEN [recs |-> <<Rec("WARNING", MsgIgnored, <<host, Repr(e)>>)>>,
             exc  |-> NoExc]
       ELSE [recs |-> <<>>, exc |-> e]

\* branch with the two tests in the opposite order
branch_doneFirst(where) ==
    IF BitAnd(where, SSL_CB_HANDSHAKE_DONE) # 0 THEN "done"
    ELSE IF BitAnd(where, SSL_CB_HANDSHAKE_START) # 0 THEN "start"
    ELSE "none"

\* branch of a wrapper that remembers the handshake is over
branch_stateful(where) ==
    IF BitAnd(where, SSL_CB_HANDSHAKE_START) # 0 /\ ~doneSeen THEN "start"
    ELSE IF BitAnd(where, SSL_CB_HANDSHAKE_DONE) # 0 THEN "done"
    ELSE "none"

\* which branch of the if / elif the bitmask selects
branch(where) ==
    IF BitAnd(where, SSL_CB_HANDSHAKE_START) # 0 THEN "start"
    ELSE IF BitAnd(where, SSL_CB_HANDSHAKE_DONE) # 0 THEN "done"
    ELSE "none"

\* a record of one invocation: its bitmask, how it ended, and the counters
\* and log length it started from
Invocation(where, outcome, exc) ==
    [where |-> where, outcome |-> outcome, exc |-> exc,
     logStart |-> Len(log), verifyStart |-> verifyCalls,
     sniStart |-> sniSets, sniBefore |-> connection.sni]

Outcome(exc) == IF exc = NoExc THEN "returned" ELSE "raised"

\* connection.set_tlsext_host_name(name): the engine takes the name or raises
set_tlsext_host_name(conn, name) ==
    IF conn.sniOk
    THEN [conn |-> [conn EXCEPT !.sni = name, !.sniArg = name],
          exc  |-> NoExc]
    ELSE [conn |-> [conn EXCEPT !.sniArg = name], exc |-> SniExc]

\* startBranch that also reports the server name at debug level
startBranch_logs(where) ==
    LET r == set_tlsext_host_name(connection, hostnameBytes)
    IN /\ connection' = r.conn
       /\ sniSets' = IF r.exc = NoExc THEN sniSets + 1 ELSE sniSets
       /\ last' = Invocation(where, Outcome(r.exc), r.exc)
       /\ log' = IF verbose_logging
                 THEN log \o <<Rec("DEBUG", "SNI %s", <<hostnameASCII>>)>>
                 ELSE log
       /\ UNCHANGED <<verifyCalls, doneSeen>>

\* startBranch that treats a rejected server name like a trust failure
startBranch_swallow(where) ==
    LET r == set_tlsext_host_name(connection, hostnameBytes)
    IN /\ connection' = r.conn
       /\ sniSets' = IF r.exc = NoExc THEN sniSets + 1 ELSE sniSets
       /\ last' = Invocation(where, "returned", NoExc)
       /\ log' = IF r.exc = NoExc THEN log
                 ELSE log \o <<Rec("WARNING", MsgIgnored,
                                   <<hostnameASCII, Repr(r.exc)>>)>>
       /\ UNCHANGED <<verifyCalls, doneSeen>>

\* if where & SSL.SSL_CB_HANDSHAKE_START: ...
startBranch(where) ==
    LET r == set_tlsext_host_name(connection, hostnameBytes)
    IN /\ connection' = r.conn
       /\ sniSets' = IF r.exc = NoExc THEN sniSets + 1 ELSE sniSets
       /\ last' = Invocation(where, Outcome(r.exc), r.exc)
       /\ UNCHANGED <<log, verifyCalls, doneSeen>>

\* elif where & SSL.SSL_CB_HANDSHAKE_DONE: ...
doneBranch(where) ==
    LET dbg == verboseLogging(connection, hostnameASCII, verbose_logging)
    IN /\ doneSeen' = TRUE
       /\ UNCHANGED <<connection, sniSets>>
       /\ IF dbg.exc # NoExc
          THEN /\ log' = log \o dbg.recs
               /\ last' = Invocation(where, "raised", dbg.exc)
               /\ UNCHANGED verifyCalls
          ELSE LET ver == verifyAndRelax(connection, hostnameASCII)
               IN /\ log' = log \o dbg.recs \o ver.recs
                  /\ verifyCalls' = verifyCalls + 1
                  /\ last' = Invocation(where, Outcome(ver.exc), ver.exc)

(***************************************************************************)
(* ScrapyClientTLSOptions._identityVerifyingInfoCallback(connection,       *)
(* where, ret)                                                             *)
(***************************************************************************)
identityVerifyingInfoCallback(where) ==
    /\ calls < MaxCalls
    /\ calls' = calls + 1
    /\ UNCHANGED <<hostnameBytes, hostnameASCII, verbose_logging>>
    /\ UNCHANGED fileVars
    /\ CASE branch(where) = "start" -> startBranch(where)
         [] branch(where) = "done"  -> doneBranch(where)
         [] OTHER ->
              /\ last' = Invocation(where, "returned", NoExc)
              /\ UNCHANGED <<connection, sniSets, log, verifyCalls, doneSeen>>

(***************************************************************************)
(* ScrapyClientTLSOptions.__init__(hostname, ctx, verbose_logging)         *)
(***************************************************************************)
NoInvocation ==
    [where |-> 0, outcome |-> "none", exc |-> NoExc, logStart |-> 0,
     verifyStart |-> 0, sniStart |-> 0, sniBefore |-> None]

TLSInit ==
    /\ \E hostname \in Hostnames :
         /\ hostnameBytes = idnaBytes(hostname)
         /\ hostnameASCII = decodeASCII(idnaBytes(hostname))
    /\ verbose_logging \in BOOLEAN
    /\ connection \in Connections
    /\ log = <<>>
    /\ verifyCalls = 0
    /\ sniSets = 0
    /\ doneSeen = FALSE
    /\ calls = 0
    /\ last = NoInvocation

FileIdle ==
    /\ fs = << >>
    /\ fetches = 0
    /\ reads = 0
    /\ lastFetch = << >>
    /\ prevFetch = << >>

Init == TLSInit /\ FileIdle

Next == \E where \in Wheres : identityVerifyingInfoCallback(where)

Spec == Init /\ [][Next]_vars

\* the records the latest invocation emitted
Emitted == SubSeq(log, last.logStart + 1, Len(log))
Level(recs, level) == SelectSeq(recs, LAMBDA r : r.level = level)

(***************************************************************************)
(* Properties of _identityVerifyingInfoCallback (checked under Spec)       *)
(***************************************************************************)
Invoked         == last.outcome # "none"
StartFlag(w)    == (w \div 16) % 2 = 1
DoneFlag(w)     == (w \div 32) % 2 = 1
StartEvent      == Invoked /\ StartFlag(last.where)
DoneEvent       == Invoked /\ ~StartFlag(last.where) /\ DoneFlag(last.where)
VerifyRan       == verifyCalls = last.verifyStart + 1
VerifyRaised(C) == DoneEvent /\ VerifyRan /\ connection.verifyExc.cls \in C
Warnings        == Level(Emitted, "WARNING")
Debugs          == Level(Emitted, "DEBUG")
IdentityErrors  == {"CertificateError", "VerificationError"}
ValueErrors     == {"ValueError", "UnicodeError"}
AccessorsFail   == verbose_logging /\ connection.failing # "none"

\* C1: when verifyHostname raises CertificateError or VerificationError on a
\* handshake-done event, the callback returns normally and emits exactly one
\* warning record, of the "not valid for hostname" shape, carrying the stored
\* hostname and the text of the error.
C1_IdentityFailureIsOneWarning ==
    VerifyRaised(IdentityErrors) =>
        /\ last.outcome = "returned"
        /\ Warnings = <<Rec("WARNING", MsgInvalid,
                            <<hostnameASCII, Str(connection.verifyExc)>>)>>

C1_Witness ==
    /\ VerifyRaised({"CertificateError"})
    /\ hostnameASCII = "xn--bcher-kva.example"
    /\ Len(Warnings) = 1
    /\ Len(Debugs) = 3

\* C2: when verifyHostname raises a ValueError (or a subclass of it) that is
\* not an identity error, the callback returns normally and emits exactly one
\* warning record, of the "Ignoring error while verifying certificate" shape
\* with the hostname and repr of the exception, never of the "not valid for
\* hostname" shape.
C2_ValueErrorIsGenericWarning ==
    VerifyRaised(ValueErrors) =>
        /\ last.outcome = "returned"
        /\ Warnings = <<Rec("WARNING", MsgIgnored,
                            <<hostnameASCII, Repr(connection.verifyExc)>>)>>
        /\ \A i \in 1..Len(Emitted) : Emitted[i].msg # MsgInvalid

C2_Witness ==
    /\ VerifyRaised({"UnicodeError"})
    /\ last.outcome = "returned"
    /\ Len(Warnings) = 1
    /\ Warnings[1].args[2] = "UnicodeError('label too long')"

\* C3: when verifyHostname raises an error that is neither a CertificateError,
\* nor a VerificationError, nor a ValueError, that error leaves the callback
\* and the callback emits no warning record.
C3_OtherErrorsPropagate ==
    VerifyRaised({"TypeError", "Error"}) =>
        /\ last.outcome = "raised"
        /\ last.exc = connection.verifyExc
        /\ Warnings = <<>>

C3_Witness ==
    /\ VerifyRaised({"TypeError"})
    /\ last.outcome = "raised"
    /\ verbose_logging
    /\ Len(Debugs) = 3

\* C4: on a handshake-done event whose accessors do not fail, the debug
\* records are none when verbose logging is off, and otherwise the
\* hostname/protocol/cipher record, then the certificate record if there is a
\* peer certificate, then the temp-key record if there is key info, each
\* present or absent independently of the others.
C4_DebugRecordCount ==
    (DoneEvent /\ ~AccessorsFail) =>
        Debugs =
          IF ~verbose_logging THEN <<>>
          ELSE <<Rec("DEBUG", MsgParams,
                     <<hostnameASCII, connection.protocol[1],
                       connection.protocol[2]>>)>>
               \o (IF connection.peer_cert # None
                   THEN <<Rec("DEBUG", MsgCert,
                              <<connection.peer_cert[2],
                                connection.peer_cert[3]>>)>>
                   ELSE <<>>)
               \o (IF connection.key_info # None
                   THEN <<Rec("DEBUG", MsgTempKey, <<connection.key_info[2]>>)>>
                   ELSE <<>>)

C4_Witness ==
    /\ DoneEvent
    /\ verbose_logging
    /\ connection.failing = "none"
    /\ connection.peer_cert = None
    /\ connection.key_info # None
    /\ Len(Debugs) = 2
    /\ Debugs[2].msg = MsgTempKey

\* C5: every invocation with the start flag passes the hostname bytes stored
\* at construction to set_tlsext_host_name (which then is the connection's
\* server name unless the engine raised), emits no record, calls no
\* verifyHostname and leaves the stored hostname and the verbose flag as they
\* were, whatever events came before.
C5_StartOnlySetsSNI ==
    [][(calls' = calls + 1 /\ StartFlag(last'.where)) =>
          /\ connection'.sniArg = hostnameBytes
          /\ last'.outcome = "returned" =>
                /\ connection'.sni = hostnameBytes
                /\ sniSets' = sniSets + 1
          /\ connection' = [connection EXCEPT !.sni = connection'.sni,
                                              !.sniArg = connection'.sniArg]
          /\ log' = log
          /\ verifyCalls' = verifyCalls
          /\ hostnameBytes' = hostnameBytes
          /\ hostnameASCII' = hostnameASCII
          /\ verbose_logging' = verbose_logging]_vars

C5_Witness ==
    /\ StartEvent
    /\ last.outcome = "returned"
    /\ calls >= 3
    /\ doneSeen
    /\ last.sniStart >= 1
    /\ verbose_logging
    /\ connection.sni = Bytes("xn--bcher-kva.example")

\* C6: when the engine rejects the server name on a start event, the engine's
\* error leaves the callback as it is: no record is emitted and the
\* connection's server name is not changed.
C6_SniFailurePropagates ==
    (StartEvent /\ ~connection.sniOk) =>
        /\ last.outcome = "raised"
        /\ last.exc = SniExc
        /\ Emitted = <<>>
        /\ connection.sni = last.sniBefore
        /\ sniSets = last.sniStart

C6_Witness ==
    /\ StartEvent
    /\ ~connection.sniOk
    /\ last.outcome = "raised"
    /\ connection.sniArg = hostnameBytes
    /\ connection.sni = None

\* C9 as stated: once a handshake-done event has been handled, no later
\* invocation sets the server name again.
C9_NoSniAfterDone == [][doneSeen => sniSets' = sniSets]_vars

\* C9 as amended: the wrapper keeps no handshake phase; a start event that the
\* engine delivers after a handshake-done event sets the server name again, to
\* the same stored hostname bytes.
C9_StartAfterDoneSetsSNIAgain ==
    [][(doneSeen /\ calls' = calls + 1 /\ StartFlag(last'.where)
          /\ connection.sniOk) =>
          /\ sniSets' = sniSets + 1
          /\ connection'.sni = hostnameBytes
          /\ doneSeen']_vars

C9_Witness ==
    /\ StartEvent
    /\ doneSeen
    /\ last.outcome = "returned"
    /\ sniSets = last.sniStart + 1
    /\ last.sniBefore = hostnameBytes
    /\ verifyCalls >= 1

DebugsFirst ==
    \A i, j \in 1..Len(Emitted) :
        (Emitted[i].level = "DEBUG" /\ Emitted[j].level = "WARNING") => i < j

\* C10 as stated: the bitmask alone selects at most one branch, start first;
\* a start event only sets the server name; a done-only event calls
\* verifyHostname exactly once, after any debug records; any other event does
\* nothing.
C10_BranchByMask ==
    Invoked =>
      CASE StartFlag(last.where) ->
             /\ Emitted = <<>>
             /\ verifyCalls = last.verifyStart
             /\ connection.sniArg = hostnameBytes
        [] ~StartFlag(last.where) /\ DoneFlag(last.where) ->
             /\ verifyCalls = last.verifyStart + 1
             /\ DebugsFirst
             /\ sniSets = last.sniStart
             /\ connection.sni = last.sniBefore
        [] OTHER ->
             /\ Emitted = <<>>
             /\ verifyCalls = last.verifyStart
             /\ sniSets = last.sniStart
             /\ connection.sni = last.sniBefore
             /\ last.outcome = "returned"

\* C10 as amended: as stated, except that on a done-only event with verbose
\* logging on, an accessor that raises ends the callback before verifyHostname
\* is called; verifyHostname is called exactly once otherwise.
C10_BranchByMaskUnlessAccessorFails ==
    Invoked =>
      CASE StartFlag(last.where) ->
             /\ Emitted = <<>>
             /\ verifyCalls = last.verifyStart
             /\ connection.sniArg = hostnameBytes
        [] ~StartFlag(last.where) /\ DoneFlag(last.where) ->
             /\ IF AccessorsFail
                THEN /\ verifyCalls = last.verifyStart
                     /\ last.outcome = "raised"
                     /\ Warnings = <<>>
                ELSE verifyCalls = last.verifyStart + 1
             /\ DebugsFirst
             /\ sniSets = last.sniStart
             /\ connection.sni = last.sniBefore
        [] OTHER ->
             /\ Emitted = <<>>
             /\ verifyCalls = last.verifyStart
             /\ sniSets = last.sniStart
             /\ connection.sni = last.sniBefore
             /\ last.outcome = "returned"

C10_Witness ==
    /\ Invoked
    /\ last.where = 48
    /\ sniSets = last.sniStart + 1
    /\ verifyCalls >= 1
    /\ verbose_logging
    /\ connection.verifyExc.cls = "VerificationError"
    /\ Len(log) = 4

(***************************************************************************)
(* FileDownloadHandler                                                     *)
(***************************************************************************)
Urls  == {"file:///tmp/a.txt", "file://localhost/tmp/a.txt",
          "file:///tmp/a%20b.bin", "not-a-file-url"}
Paths == {"/tmp/a.txt", "/tmp/a b.bin"}

\* file contents, as byte strings
Contents == {<< >>, <<104, 105>>, <<0, 255>>}

Missing    == [kind |-> "missing",    data |-> << >>]
Unreadable == [kind |-> "unreadable", data |-> << >>]
File(data) == [kind |-> "file",       data |-> data]
FileStates == {Missing, Unreadable} \cup {File(c) : c \in Contents}

WellFormedFileUrl(url) == url # "not-a-file-url"

\* file_uri_to_path(uri): the path component, percent-decoded; the host part
\* of the URL is dropped
file_uri_to_path(url) ==
    CASE url = "file:///tmp/a.txt"          -> [exc |-> NoExc, path |-> "/tmp/a.txt"]
      [] url = "file://localhost/tmp/a.txt" -> [exc |-> NoExc, path |-> "/tmp/a.txt"]
      [] url = "file:///tmp/a%20b.bin"      -> [exc |-> NoExc, path |-> "/tmp/a b.bin"]
      [] OTHER -> [exc  |-> [cls |-> "InvalidLocatorError", msg |-> url],
                   path |-> ""]

\* Path(filepath).read_bytes()
read_bytes(filesystem, path) ==
    LET f == filesystem[path]
    IN CASE f.kind = "file"    -> [exc |-> NoExc, data |-> f.data]
         [] f.kind = "missing" ->
              [exc  |-> [cls |-> "FileNotFoundError", msg |-> path],
               data |-> << >>]
         [] OTHER ->
              [exc  |-> [cls |-> "PermissionError", msg |-> path],
               data |-> << >>]

\* responsetypes.from_args(filename=..., body=...): the response class, from
\* the file name's extension and else from the body
from_args(filename, body) ==
    CASE filename = "/tmp/a.txt" -> "TextResponse"
      [] OTHER -> IF \E i \in 1..Len(body) : body[i] = 0 \/ body[i] > 127
                  THEN "Response" ELSE "TextResponse"

NoResponse == [url |-> "", body |-> << >>, cls |-> "None"]
Succeeded(response) == [state |-> "success", response |-> response,
                        exc |-> NoExc]
Failed(exc)         == [state |-> "failure", response |-> NoResponse,
                        exc |-> exc]

\* one download_request call: the request, the state of the file it named
\* when it was made, the Deferred's result and the reads done before it
Fetch(url, target, result) ==
    [url |-> url, target |-> target, result |-> result, readsStart |-> reads]
NoFetch == Fetch("", Missing, [state |-> "none", response |-> NoResponse,
                               exc |-> NoExc])

Target(url) ==
    IF file_uri_to_path(url).exc = NoExc
    THEN fs[file_uri_to_path(url).path] ELSE Missing

\* download_request that keeps the last response for a URL and serves it again
download_request_cached(url) ==
    /\ fetches < MaxFetches
    /\ fetches' = fetches + 1
    /\ prevFetch' = lastFetch
    /\ UNCHANGED fs
    /\ UNCHANGED tlsVars
    /\ LET p == file_uri_to_path(url)
       IN IF p.exc # NoExc
          THEN /\ lastFetch' = Fetch(url, Target(url), Failed(p.exc))
               /\ UNCHANGED reads
          ELSE IF lastFetch.url = url /\ lastFetch.result.state = "success"
          THEN /\ lastFetch' = Fetch(url, Target(url), lastFetch.result)
               /\ UNCHANGED reads
          ELSE LET r == read_bytes(fs, p.path)
               IN /\ reads' = reads + 1
                  /\ lastFetch' =
                       Fetch(url, Target(url),
                             IF r.exc # NoExc THEN Failed(r.exc)
                             ELSE Succeeded([url  |-> url,
                                             body |-> r.data,
                                             cls  |-> from_args(p.path,
                                                                r.data)]))

\* download_request that answers a failed read with an empty response
download_request_emptyOnError(url) ==
    /\ fetches < MaxFetches
    /\ fetches' = fetches + 1
    /\ prevFetch' = lastFetch
    /\ UNCHANGED fs
    /\ UNCHANGED tlsVars
    /\ LET p == file_uri_to_path(url)
       IN IF p.exc # NoExc
          THEN /\ lastFetch' = Fetch(url, Target(url), Failed(p.exc))
               /\ UNCHANGED reads
          ELSE LET r == read_bytes(fs, p.path)
               IN /\ reads' = reads + 1
                  /\ lastFetch' =
                       Fetch(url, Target(url),
                             Succeeded([url  |-> url,
                                        body |-> r.data,
                                        cls  |-> from_args(p.path, r.data)]))

(***************************************************************************)
(* FileDownloadHandler.download_request(request, spider), under @defers:   *)
(* the Deferred it returns has fired with the response or with the failure *)
(***************************************************************************)
download_request(url) ==
    /\ fetches < MaxFetches
    /\ fetches' = fetches + 1
    /\ prevFetch' = lastFetch
    /\ UNCHANGED fs
    /\ UNCHANGED tlsVars
    /\ LET p == file_uri_to_path(url)
       IN IF p.exc # NoExc
          THEN /\ lastFetch' = Fetch(url, Target(url), Failed(p.exc))
               /\ UNCHANGED reads
          ELSE LET r == read_bytes(fs, p.path)
               IN /\ reads' = reads + 1
                  /\ lastFetch' =
                       Fetch(url, Target(url),
                             IF r.exc # NoExc THEN Failed(r.exc)
                             ELSE Succeeded([url  |-> url,
                                             body |-> r.data,
                                             cls  |-> from_args(p.path,
                                                                r.data)]))

\* the filesystem changes under the handler: a file is written, removed, or
\* made unreadable
ChangeFile(path, state) ==
    /\ fs[path] # state
    /\ fs' = [fs EXCEPT ![path] = state]
    /\ UNCHANGED <<fetches, reads, lastFetch, prevFetch>>
    /\ UNCHANGED tlsVars

TLSIdle ==
    /\ hostnameBytes = idnaBytes("example.com")
    /\ hostnameASCII = decodeASCII(idnaBytes("example.com"))
    /\ verbose_logging = FALSE
    /\ connection = CHOOSE c \in Connections :
                       /\ c.sniOk /\ c.verifyExc = NoExc /\ c.failing = "none"
                       /\ c.peer_cert # None /\ c.key_info # None
                       /\ c.protocol[1] = "TLSv1.3"
    /\ log = <<>>
    /\ verifyCalls = 0
    /\ sniSets = 0
    /\ doneSeen = FALSE
    /\ calls = 0
    /\ last = NoInvocation

FileInit ==
    /\ fs \in [Paths -> FileStates]
    /\ fetches = 0
    /\ reads = 0
    /\ lastFetch = NoFetch
    /\ prevFetch = NoFetch
    /\ TLSIdle

FileNext ==
    \/ \E url \in Urls : download_request(url)
    \/ \E path \in Paths, state \in FileStates : ChangeFile(path, state)

FileSpec == FileInit /\ [][FileNext]_vars

(***************************************************************************)
(* Properties of download_request (checked under FileSpec)                 *)
(***************************************************************************)
Fetched(f)  == f.result.state # "none"
Readable(f) == WellFormedFileUrl(f.url) /\ f.target.kind = "file"

\* C7: a fetch of a well-formed file URL naming a readable file succeeds with
\* a response whose url is the request's URL and whose body is the file's
\* content at the time of the call; nothing is kept between calls, so two
\* fetches of one URL give equal responses when the content was equal at both
\* calls and the new content when it changed.
C7_BodyIsFileContent ==
    /\ (Fetched(lastFetch) /\ Readable(lastFetch)) =>
          /\ lastFetch.result.state = "success"
          /\ lastFetch.result.response.url = lastFetch.url
          /\ lastFetch.result.response.body = lastFetch.target.data
          /\ reads = lastFetch.readsStart + 1
    /\ (Fetched(prevFetch) /\ Readable(prevFetch) /\ Readable(lastFetch)
          /\ prevFetch.url = lastFetch.url) =>
          /\ (prevFetch.target = lastFetch.target
                => prevFetch.result = lastFetch.result)
          /\ (prevFetch.target # lastFetch.target
                => lastFetch.result.response.body # prevFetch.result.response.body)

C7_Witness ==
    /\ Fetched(prevFetch) /\ Readable(prevFetch) /\ Readable(lastFetch)
    /\ prevFetch.url = "file:///tmp/a%20b.bin"
    /\ lastFetch.url = prevFetch.url
    /\ prevFetch.result.response.body = <<104, 105>>
    /\ lastFetch.result.response.body = <<0, 255>>
    /\ lastFetch.result.response.url = "file:///tmp/a%20b.bin"

====
